---- MODULE Spec2Model ----
(***************************************************************************)
(* Walking-path annotation engine of mapsdrawer (src/main.js): the line    *)
(* registry `lines`, the bounded undo stack, the label layer and the       *)
(* sidebar/summary view, driven by the draw tool's events (CREATED,        *)
(* EDITED, DELETED), the sidebar delete button, the clear button and       *)
(* Ctrl+Z.                                                                 *)
(*                                                                         *)
(* Representation.  A point is an integer k: the point on one meridian     *)
(* at k grid steps of GridMeters metres, so distanceTo is                  *)
(* |k1 - k2| * GridMeters.  Real quantities (feet, seconds, label          *)
(* coordinates) are exact fractions [num, den]; Math.round is round half   *)
(* up on them.  A Map is a function on its key set.  A Leaflet layer       *)
(* group is a bag of the contents of the layers it holds, so two distinct  *)
(* marker objects with equal content count twice.                          *)
(*                                                                         *)
(* currentDrawHandler is the L.Draw.Polyline the right-click handler       *)
(* refers to, or Null; timers are the callbacks handed to setTimeout and   *)
(* not yet run, in the order they were set; gestures counts the            *)
(* right-clicks so far, and a draw handler bears the number of the         *)
(* right-click that made it.                                               *)
(* old is the state of the older entry point (src/unnamed/part_000), the   *)
(* same page without the undo stack, fed the same events.                  *)
(***************************************************************************)
EXTENDS Bags, FiniteSets, Integers, Sequences, TLC

VARIABLES lineCounter, lines, undoStack, drawnItems, labelsLayer,
          listEl, totals, last, currentDrawHandler, timers, gestures, old

vars == <<lineCounter, lines, undoStack, drawnItems, labelsLayer,
          listEl, totals, last, currentDrawHandler, timers, gestures, old>>

(***************************************************************************)
(* Bounds of the model                                                     *)
(***************************************************************************)
MaxLines == 2
MaxLinesLong == 1
MaxBatch == 1
GridMeters == 25

\* inputs of the pure functions: whole seconds 0 .. MaxSeconds, vertex lists
\* of up to MaxVertices points among 0 .. MaxPoint
MaxSeconds == 150
\* right-clicks per session and vertices placed in one unfinished path
MaxGestures == 3
MaxMarkers == 2
MaxPoint == 2
MaxVertices == 3

(***************************************************************************)
(* Program constants                                                       *)
(***************************************************************************)
WALKING_SPEED_FT_PER_SEC == 3
METERS_TO_FEET == [num |-> 328084, den |-> 100000]
LINE_COLORS ==
  <<"#3388ff", "#ff6b6b", "#4ecdc4", "#45b7d1",
    "#96ceb4", "#ffeaa7", "#dfe6e9", "#fd79a8">>
MAX_UNDO == 10

(***************************************************************************)
(* Inputs: the vertex lists a draw or an edit can deliver, and line ids    *)
(***************************************************************************)
VertexLists == {<<>>, <<0>>, <<0, 2>>, <<0, 1, 2>>}
LongVertexLists == {<<0, 2>>}

LineId(number) == <<"line", number>>
NoId == <<"none", 0>>
Ids(n) == {LineId(k) : k \in 1..n}

(***************************************************************************)
(* Exact arithmetic                                                        *)
(***************************************************************************)
RECURSIVE GCD(_, _)
GCD(a, b) == IF b = 0 THEN a ELSE GCD(b, a % b)

Abs(x) == IF x < 0 THEN -x ELSE x

RTimes(x, r) == [num |-> x * r.num, den |-> r.den]
ROver(r, k) == [num |-> r.num, den |-> r.den * k]
RScale(r, k) == LET g == GCD(k, r.den)
                IN [num |-> r.num * (k \div g), den |-> r.den \div g]
RPlus(a, b) == IF a.den = b.den
               THEN [num |-> a.num + b.num, den |-> a.den]
               ELSE [num |-> a.num * b.den + b.num * a.den,
                     den |-> a.den * b.den]
RZero == [num |-> 0, den |-> METERS_TO_FEET.den]
RPositive(r) == r.num > 0

\* Math.trunc in place of Math.round: the fraction part is dropped
MathTrunc(r) == r.num \div r.den

\* Math.round on a non-negative fraction: floor(x + 1/2)
MathRound(r) == (2 * r.num + r.den) \div (2 * r.den)

\* two-digit and three-digit zero padding used by toFixed and toLocaleString
Pad2(n) == IF n < 10 THEN "0" \o ToString(n) ELSE ToString(n)
Pad3(n) == IF n < 10 THEN "00" \o ToString(n)
           ELSE IF n < 100 THEN "0" \o ToString(n) ELSE ToString(n)

\* Number.prototype.toLocaleString of a non-negative integer below 10^6
ToLocaleString(n) ==
  IF n >= 1000 THEN ToString(n \div 1000) \o "," \o Pad3(n % 1000)
  ELSE ToString(n)

\* Number.prototype.toFixed(2) of a non-negative fraction
ToFixed2(r) == LET h == MathRound(RScale(r, 100))
               IN ToString(h \div 100) \o "." \o Pad2(h % 100)

(***************************************************************************)
(* Geometry and formatting                                                 *)
(***************************************************************************)
\* L.LatLng.distanceTo, in metres
distanceTo(a, b) == Abs(a - b) * GridMeters

RECURSIVE SumMeters(_, _)
SumMeters(latlngs, i) ==
  IF i >= Len(latlngs) THEN 0
  ELSE distanceTo(latlngs[i], latlngs[i + 1]) + SumMeters(latlngs, i + 1)

\* the distance from the first vertex straight to the last one
calculateDistanceEndToEnd(latlngs) ==
  IF Len(latlngs) < 2 THEN RTimes(0, METERS_TO_FEET)
  ELSE RTimes(distanceTo(latlngs[1], latlngs[Len(latlngs)]), METERS_TO_FEET)

calculateDistance(latlngs) == RTimes(SumMeters(latlngs, 1), METERS_TO_FEET)

formatTime(seconds) ==
  LET mins == MathRound(ROver(seconds, 60))
  IN IF mins = 0 THEN "<1m" ELSE ToString(mins) \o "m"

formatTimeLong(seconds) ==
  LET mins == MathRound(ROver(seconds, 60))
  IN IF mins = 0 THEN "<1 min"
     ELSE IF mins = 1 THEN "1 min"
     ELSE ToString(mins) \o " min"

\* getMidpoint.  The result records which return statement produced it.  The
\* lengths are whole metres, so midDistance = totalLength / 2 is kept doubled:
\* accumulated + seg.length >= midDistance is 2 * (accumulated + length) >=
\* totalLength, and ratio is (totalLength - 2 * accumulated) / (2 * length).
\* A fraction 0 / 0 is what the division yields on a segment of length 0
\* reached with nothing left to cover: NaN.
RECURSIVE MidpointScan(_, _, _, _)
MidpointScan(latlngs, totalLength, accumulated, i) ==
  IF i >= Len(latlngs)
  THEN [kind |-> "fallback", latlng |-> latlngs[(Len(latlngs) \div 2) + 1]]
  ELSE LET start == latlngs[i]
           end == latlngs[i + 1]
           length == distanceTo(start, end)
       IN IF 2 * (accumulated + length) >= totalLength
          THEN LET ratio == [num |-> totalLength - 2 * accumulated,
                             den |-> 2 * length]
               IN [kind |-> "interpolated",
                   latlng |-> [num |-> start * ratio.den
                                         + (end - start) * ratio.num,
                               den |-> ratio.den],
                   ratio |-> ratio, segment |-> i]
          ELSE MidpointScan(latlngs, totalLength, accumulated + length, i + 1)

getMidpoint(latlngs) ==
  IF Len(latlngs) = 0 THEN [kind |-> "null"]
  ELSE IF Len(latlngs) = 1 THEN [kind |-> "vertex", latlng |-> latlngs[1]]
  ELSE MidpointScan(latlngs, SumMeters(latlngs, 1), 0, 1)

getSegmentMidpoint(start, end) == [num |-> start + end, den |-> 2]

createSegmentLabel(latlng, text, color) ==
  [className |-> "line-label", latlng |-> latlng, color |-> color,
   html |-> text]

createTotalLabel(latlng, text, color) ==
  [className |-> "line-label total-label", latlng |-> latlng,
   color |-> color, html |-> "Total: " \o text]

(***************************************************************************)
(* Layer groups                                                            *)
(***************************************************************************)
RECURSIVE SeqToBag(_)
SeqToBag(s) == IF s = <<>> THEN EmptyBag
               ELSE SetToBag({Head(s)}) (+) SeqToBag(Tail(s))

\* FeatureGroup.removeLayer of one object
removeLayer(group, layer) == group (-) SetToBag({layer})

RECURSIVE removeLayers(_, _)
removeLayers(group, layers) ==
  IF layers = <<>> THEN group
  ELSE removeLayers(removeLayer(group, Head(layers)), Tail(layers))

\* FeatureGroup.addLayer of a new object
addLayer(group, layer) == group (+) SetToBag({layer})

RECURSIVE addLayers(_, _)
addLayers(group, layers) ==
  IF layers = <<>> THEN group
  ELSE addLayers(addLayer(group, Head(layers)), Tail(layers))

(***************************************************************************)
(* The program state as one record                                         *)
(***************************************************************************)
State == [lineCounter |-> lineCounter, lines |-> lines,
          undoStack |-> undoStack, drawnItems |-> drawnItems,
          labelsLayer |-> labelsLayer, listEl |-> listEl, totals |-> totals]

EmptyMap == [id \in {} |-> 0]

MapDelete(m, k) == [id \in DOMAIN m \ {k} |-> m[id]]
MapSet(m, k, v) == [id \in DOMAIN m \cup {k} |-> IF id = k THEN v ELSE m[id]]

(***************************************************************************)
(* Undo stack                                                              *)
(***************************************************************************)
\* pushUndo dropping from the wrong end once the stack is over capacity
pushUndoDropsNewest(stack, action) ==
  LET pushed == Append(stack, action)
  IN IF Len(pushed) > MAX_UNDO THEN SubSeq(pushed, 1, Len(pushed) - 1)
     ELSE pushed

pushUndo(stack, action) ==
  LET pushed == Append(stack, action)
  IN IF Len(pushed) > MAX_UNDO THEN Tail(pushed) ELSE pushed

(***************************************************************************)
(* Labels                                                                  *)
(***************************************************************************)
\* the loop of updateLineLabel: labels of segments i .. n-1 and the feet
\* accumulated over them
RECURSIVE SegmentLabels(_, _, _)
SegmentLabels(latlngs, color, i) ==
  IF i >= Len(latlngs) THEN <<>>
  ELSE LET segmentMeters == distanceTo(latlngs[i], latlngs[i + 1])
           segmentFeet == RTimes(segmentMeters, METERS_TO_FEET)
           segmentSeconds == ROver(segmentFeet, WALKING_SPEED_FT_PER_SEC)
           midpoint == getSegmentMidpoint(latlngs[i], latlngs[i + 1])
       IN <<createSegmentLabel(midpoint, formatTime(segmentSeconds), color)>>
          \o SegmentLabels(latlngs, color, i + 1)

RECURSIVE SegmentFeet(_, _)
SegmentFeet(latlngs, i) ==
  IF i >= Len(latlngs) THEN RZero
  ELSE RPlus(RTimes(distanceTo(latlngs[i], latlngs[i + 1]), METERS_TO_FEET),
             SegmentFeet(latlngs, i + 1))

\* the total label built from the last segment's seconds
TotalLabelLastSegment(latlngs, color) ==
  LET n == Len(latlngs)
      segmentFeet == RTimes(distanceTo(latlngs[n - 1], latlngs[n]),
                            METERS_TO_FEET)
      segmentSeconds == ROver(segmentFeet, WALKING_SPEED_FT_PER_SEC)
      endPoint == [num |-> latlngs[n], den |-> 1]
  IN createTotalLabel(endPoint, formatTime(segmentSeconds), color)

TotalLabel(latlngs, color) ==
  LET totalFeet == SegmentFeet(latlngs, 1)
      totalSeconds == ROver(totalFeet, WALKING_SPEED_FT_PER_SEC)
      endPoint == [num |-> latlngs[Len(latlngs)], den |-> 1]
  IN createTotalLabel(endPoint, formatTime(totalSeconds), color)

updateLineLabel(S, lineId) ==
  IF lineId \notin DOMAIN S.lines THEN S
  ELSE LET lineData == S.lines[lineId]
           removed == removeLayers(S.labelsLayer, lineData.labels)
           latlngs == lineData.latlngs
           labels == IF Len(latlngs) < 2 THEN <<>>
                     ELSE SegmentLabels(latlngs, lineData.color, 1)
                          \o <<TotalLabel(latlngs, lineData.color)>>
       IN [S EXCEPT !.lines[lineId].labels = labels,
                    !.labelsLayer = addLayers(removed, labels)]

(***************************************************************************)
(* Sidebar and summary                                                     *)
(***************************************************************************)
updateLinesList(S) ==
  [S EXCEPT !.listEl =
     [noLines |-> S.lines = EmptyMap,
      items |->
        {LET lineData == S.lines[lineId]
             feet == calculateDistance(lineData.latlngs)
             seconds == ROver(feet, WALKING_SPEED_FT_PER_SEC)
         IN [lineId |-> lineId, color |-> lineData.color,
             name |-> "Line " \o ToString(lineData.number),
             \* the separator stands for the middle dot of the source
             stats |-> ToLocaleString(MathRound(feet)) \o " ft - "
                       \o formatTimeLong(seconds)]
         : lineId \in DOMAIN S.lines}]]

RECURSIVE SumFeet(_, _)
SumFeet(m, ids) ==
  IF ids = {} THEN RZero
  ELSE LET id == CHOOSE x \in ids : TRUE
       IN RPlus(calculateDistance(m[id].latlngs), SumFeet(m, ids \ {id}))

\* updateTotals deciding on the placeholder by the number of lines instead
\* of by the total length
updateTotalsByCount(S) ==
  LET totalFeet == SumFeet(S.lines, DOMAIN S.lines)
  IN [S EXCEPT !.totals =
        IF S.lines # EmptyMap
        THEN [distance |-> ToLocaleString(MathRound(totalFeet)) \o " ft ("
                           \o ToFixed2(ROver(totalFeet, 5280)) \o " mi)",
              time |-> formatTimeLong(
                         ROver(totalFeet, WALKING_SPEED_FT_PER_SEC))]
        ELSE [distance |-> "--", time |-> "--"]]

updateTotals(S) ==
  LET totalFeet == SumFeet(S.lines, DOMAIN S.lines)
  IN [S EXCEPT !.totals =
        IF RPositive(totalFeet)
        THEN [distance |-> ToLocaleString(MathRound(totalFeet)) \o " ft ("
                           \o ToFixed2(ROver(totalFeet, 5280)) \o " mi)",
              time |-> formatTimeLong(
                         ROver(totalFeet, WALKING_SPEED_FT_PER_SEC))]
        ELSE [distance |-> "--", time |-> "--"]]

updateResults(S) == updateTotals(updateLinesList(S))

(***************************************************************************)
(* Registry operations                                                     *)
(***************************************************************************)
\* removeLineFromMap taking the layers off the map but leaving the registry
\* entry in place
removeLineFromMapKeepsEntry(S, lineId) ==
  IF lineId \in DOMAIN S.lines
  THEN LET lineData == S.lines[lineId]
       IN updateResults(
            [S EXCEPT !.drawnItems = removeLayer(@, lineId),
                      !.labelsLayer = removeLayers(@, lineData.labels)])
  ELSE S

removeLineFromMap(S, lineId) ==
  IF lineId \in DOMAIN S.lines
  THEN LET lineData == S.lines[lineId]
       IN updateResults(
            [S EXCEPT !.drawnItems = removeLayer(@, lineId),
                      !.labelsLayer = removeLayers(@, lineData.labels),
                      !.lines = MapDelete(@, lineId)])
  ELSE S

\* deleteLine recording the delete before it has looked the line up
deleteLineRecordsFirst(S, lineId) ==
  LET known == lineId \in DOMAIN S.lines
      action == [type |-> "delete", lineId |-> lineId,
                 latlngs |-> IF known THEN S.lines[lineId].latlngs ELSE <<>>,
                 color |-> IF known THEN S.lines[lineId].color ELSE "",
                 number |-> IF known THEN S.lines[lineId].number ELSE 0]
  IN removeLineFromMap([S EXCEPT !.undoStack = pushUndo(@, action)], lineId)

deleteLine(S, lineId) ==
  IF lineId \in DOMAIN S.lines
  THEN LET lineData == S.lines[lineId]
           latlngs == lineData.latlngs
       IN removeLineFromMap(
            [S EXCEPT !.undoStack =
               pushUndo(@, [type |-> "delete", lineId |-> lineId,
                            latlngs |-> latlngs, color |-> lineData.color,
                            number |-> lineData.number])],
            lineId)
  ELSE S

\* lineCounter++ numbering the new line by the lines now on the map
nextNumberBySize(S) == Cardinality(DOMAIN S.lines) + 1

\* lineCounter++
nextNumber(S) == S.lineCounter + 1

\* the colour index taken from the counter without the offset, as the draw
\* preview does before the counter is advanced
lineColorNoOffset(counter) ==
  LINE_COLORS[(counter % Len(LINE_COLORS)) + 1]

\* LINE_COLORS[(lineCounter - 1) % LINE_COLORS.length], 0-based in the source
lineColor(counter) ==
  LINE_COLORS[((counter - 1) % Len(LINE_COLORS)) + 1]

OnCreated(S, latlngs) ==
  LET counter == nextNumber(S)
      lineId == LineId(counter)
      color == lineColor(counter)
      lineData == [latlngs |-> latlngs, labels |-> <<>>,
                   color |-> color, number |-> counter]
      stored == [S EXCEPT !.lineCounter = counter,
                          !.drawnItems = addLayer(@, lineId),
                          !.lines = MapSet(@, lineId, lineData),
                          !.undoStack =
                            pushUndo(@, [type |-> "create",
                                         lineId |-> lineId])]
  IN updateResults(updateLineLabel(stored, lineId))

\* e.layers of an EDITED event: edits maps each edited layer's _lineId to
\* the vertex list the tool has given that layer
\* the EDITED loop without the call of updateLineLabel
RECURSIVE EditEachStale(_, _, _)
EditEachStale(S, edits, ids) ==
  IF ids = {} THEN S
  ELSE LET id == CHOOSE x \in ids : TRUE
           moved == IF id \in DOMAIN S.lines
                    THEN [S EXCEPT !.lines[id].latlngs = edits[id]]
                    ELSE S
       IN EditEachStale(moved, edits, ids \ {id})

RECURSIVE EditEach(_, _, _)
EditEach(S, edits, ids) ==
  IF ids = {} THEN S
  ELSE LET id == CHOOSE x \in ids : TRUE
           moved == IF id \in DOMAIN S.lines
                    THEN [S EXCEPT !.lines[id].latlngs = edits[id]]
                    ELSE S
       IN EditEach(updateLineLabel(moved, id), edits, ids \ {id})

OnEdited(S, edits) == updateResults(EditEach(S, edits, DOMAIN edits))

\* e.layers of a DELETED event: the _lineId of each layer the tool has
\* taken out of drawnItems
\* the DELETED loop recording each removal for undo, as deleteLine does
RECURSIVE DeleteEachRecorded(_, _)
DeleteEachRecorded(S, ids) ==
  IF ids = {} THEN S
  ELSE LET id == CHOOSE x \in ids : TRUE
       IN DeleteEachRecorded(deleteLine(S, id), ids \ {id})

\* the DELETED loop dropping the registry entries but not their labels
RECURSIVE DeleteEachKeepsLabels(_, _)
DeleteEachKeepsLabels(S, ids) ==
  IF ids = {} THEN S
  ELSE LET id == CHOOSE x \in ids : TRUE
       IN DeleteEachKeepsLabels([S EXCEPT !.lines = MapDelete(@, id)],
                                ids \ {id})

RECURSIVE DeleteEach(_, _)
DeleteEach(S, ids) ==
  IF ids = {} THEN S
  ELSE LET id == CHOOSE x \in ids : TRUE
           unlabelled ==
             IF id \in DOMAIN S.lines
             THEN [S EXCEPT !.labelsLayer =
                              removeLayers(@, S.lines[id].labels)]
             ELSE S
       IN DeleteEach([unlabelled EXCEPT !.lines = MapDelete(@, id)],
                     ids \ {id})

RECURSIVE ToolRemove(_, _)
ToolRemove(group, ids) ==
  IF ids = {} THEN group
  ELSE LET id == CHOOSE x \in ids : TRUE
       IN ToolRemove(removeLayer(group, id), ids \ {id})

\* the DELETED handler returning without the call of updateResults
OnDeletedNoRefresh(S, ids) ==
  DeleteEach([S EXCEPT !.drawnItems = ToolRemove(@, ids)], ids)

OnDeleted(S, ids) ==
  updateResults(
    DeleteEach([S EXCEPT !.drawnItems = ToolRemove(@, ids)], ids))

\* the clear button emptying the two layer groups but not the registry
OnClearLayersOnly(S) ==
  updateResults([S EXCEPT !.drawnItems = EmptyBag,
                          !.labelsLayer = EmptyBag])

\* the clear button also emptying the undo stack
OnClearForgetsUndo(S) ==
  updateResults([S EXCEPT !.drawnItems = EmptyBag,
                          !.labelsLayer = EmptyBag,
                          !.lines = EmptyMap,
                          !.undoStack = <<>>])

OnClear(S) ==
  updateResults([S EXCEPT !.drawnItems = EmptyBag,
                          !.labelsLayer = EmptyBag,
                          !.lines = EmptyMap])

\* restoreLine picking the colour the way the draw preview does (from the
\* live counter) instead of taking the saved one
restoreLineRecolored(S, latlngs, color, number) ==
  LET lineId == LineId(number)
      recolor == LINE_COLORS[(S.lineCounter % Len(LINE_COLORS)) + 1]
      stored == [S EXCEPT !.drawnItems = addLayer(@, lineId),
                          !.lines = MapSet(@, lineId,
                                      [latlngs |-> latlngs, labels |-> <<>>,
                                       color |-> recolor,
                                       number |-> number])]
  IN updateResults(updateLineLabel(stored, lineId))

\* restoreLine setting the live counter back to the restored number
restoreLineResetsCounter(S, latlngs, color, number) ==
  LET lineId == LineId(number)
      stored == [S EXCEPT !.lineCounter = number,
                          !.drawnItems = addLayer(@, lineId),
                          !.lines = MapSet(@, lineId,
                                      [latlngs |-> latlngs, labels |-> <<>>,
                                       color |-> color, number |-> number])]
  IN updateResults(updateLineLabel(stored, lineId))

restoreLine(S, latlngs, color, number) ==
  LET lineId == LineId(number)
      stored == [S EXCEPT !.drawnItems = addLayer(@, lineId),
                          !.lines = MapSet(@, lineId,
                                      [latlngs |-> latlngs, labels |-> <<>>,
                                       color |-> color, number |-> number])]
  IN updateResults(updateLineLabel(stored, lineId))

\* the undo handler starting over when there is nothing to undo
OnUndoEmptyClears(S) ==
  IF Len(S.undoStack) = 0 THEN OnClear(S)
  ELSE LET action == S.undoStack[Len(S.undoStack)]
           popped == [S EXCEPT !.undoStack =
                                 SubSeq(@, 1, Len(S.undoStack) - 1)]
       IN IF action.type = "create"
          THEN removeLineFromMap(popped, action.lineId)
          ELSE IF action.type = "delete"
          THEN restoreLine(popped, action.latlngs, action.color,
                           action.number)
          ELSE popped

\* the undo handler leaving a create action on the stack when its line is
\* no longer in the registry
OnUndoKeepsUnmatched(S) ==
  IF Len(S.undoStack) = 0 THEN S
  ELSE LET action == S.undoStack[Len(S.undoStack)]
           popped == [S EXCEPT !.undoStack =
                                 SubSeq(@, 1, Len(S.undoStack) - 1)]
       IN IF action.type = "create"
          THEN IF action.lineId \in DOMAIN S.lines
               THEN removeLineFromMap(popped, action.lineId)
               ELSE S
          ELSE IF action.type = "delete"
          THEN restoreLine(popped, action.latlngs, action.color,
                           action.number)
          ELSE popped

\* the undo handler taking the action with shift() instead of pop()
OnUndoOldestFirst(S) ==
  IF Len(S.undoStack) = 0 THEN S
  ELSE LET action == Head(S.undoStack)
           popped == [S EXCEPT !.undoStack = Tail(@)]
       IN IF action.type = "create"
          THEN removeLineFromMap(popped, action.lineId)
          ELSE IF action.type = "delete"
          THEN restoreLine(popped, action.latlngs, action.color,
                           action.number)
          ELSE popped

\* the undo handler reading a delete action without taking it off the stack
OnUndoPeeksDelete(S) ==
  IF Len(S.undoStack) = 0 THEN S
  ELSE LET action == S.undoStack[Len(S.undoStack)]
           popped == [S EXCEPT !.undoStack =
                                 SubSeq(@, 1, Len(S.undoStack) - 1)]
       IN IF action.type = "create"
          THEN removeLineFromMap(popped, action.lineId)
          ELSE IF action.type = "delete"
          THEN restoreLine(S, action.latlngs, action.color, action.number)
          ELSE popped

\* the undo handler going on to the next action when the line of a create
\* action is not in the registry
RECURSIVE OnUndoFallsThrough(_)
OnUndoFallsThrough(S) ==
  IF Len(S.undoStack) = 0 THEN S
  ELSE LET action == S.undoStack[Len(S.undoStack)]
           popped == [S EXCEPT !.undoStack =
                                 SubSeq(@, 1, Len(S.undoStack) - 1)]
       IN IF action.type = "create"
          THEN IF action.lineId \in DOMAIN S.lines
               THEN removeLineFromMap(popped, action.lineId)
               ELSE OnUndoFallsThrough(popped)
          ELSE IF action.type = "delete"
          THEN restoreLine(popped, action.latlngs, action.color,
                           action.number)
          ELSE popped

OnUndo(S) ==
  IF Len(S.undoStack) = 0 THEN S
  ELSE LET action == S.undoStack[Len(S.undoStack)]
           popped == [S EXCEPT !.undoStack =
                                 SubSeq(@, 1, Len(S.undoStack) - 1)]
       IN IF action.type = "create"
          THEN removeLineFromMap(popped, action.lineId)
          ELSE IF action.type = "delete"
          THEN restoreLine(popped, action.latlngs, action.color,
                           action.number)
          ELSE popped

(***************************************************************************)
(* State machine                                                           *)
(***************************************************************************)
\* History of the session, kept beside the program state: the handler of the
\* event handled last, the line id it named, whether the ids it named (at
\* least one) were all in the registry, the type of the undo action it popped, for an undo the same
\* two facts about the event before it, the number of
\* path-finished events so far and the ids that have ever been in the
\* registry.
Handled(S, op, lineId, hit, kind) ==
  /\ lineCounter' = S.lineCounter
  /\ lines' = S.lines
  /\ undoStack' = S.undoStack
  /\ drawnItems' = S.drawnItems
  /\ labelsLayer' = S.labelsLayer
  /\ listEl' = S.listEl
  /\ totals' = S.totals
  /\ last' = [op |-> op, lineId |-> lineId, hit |-> hit, kind |-> kind,
              after |-> IF op = "undo" THEN last.op ELSE "none",
              afterHit |-> op = "undo" /\ last.hit,
              created |-> last.created + (IF op = "created" THEN 1 ELSE 0),
              held |-> last.held \cup DOMAIN S.lines]

\* a draw handler: the number of the right-click that made it, its _markers
\* and, for each vertex a deferred step gave it, the number of the
\* right-click that set the step
Null == [id |-> 0, markers |-> <<>>, seeds |-> <<>>]

\* the state of the older entry point after load
Constructed000 ==
  [lineCounter |-> 0, lines |-> EmptyMap, drawnItems |-> EmptyBag,
   labelsLayer |-> EmptyBag,
   listEl |-> [noLines |-> TRUE, items |-> {}],
   totals |-> [distance |-> "--", time |-> "--"],
   currentDrawHandler |-> Null, timers |-> <<>>]

\* an event of the page's own handlers: the second CREATED handler drops
\* the reference to the draw handler, no other handler touches it
Install(S, op, lineId, hit, kind) ==
  /\ Handled(S, op, lineId, hit, kind)
  /\ currentDrawHandler' = IF op = "created" THEN Null
                           ELSE currentDrawHandler
  /\ UNCHANGED <<timers, gestures, old>>

Drawing ==
  /\ currentDrawHandler = Null
  /\ timers = <<>>
  /\ gestures = 0
  /\ old = Constructed000

Init ==
  /\ Drawing
  /\ lineCounter = 0
  /\ lines = EmptyMap
  /\ undoStack = <<>>
  /\ drawnItems = EmptyBag
  /\ labelsLayer = EmptyBag
  /\ listEl = [noLines |-> TRUE, items |-> {}]
  /\ totals = [distance |-> "--", time |-> "--"]
  /\ last = [op |-> "init", lineId |-> NoId, hit |-> TRUE, kind |-> "none",
             after |-> "none", afterHit |-> FALSE, created |-> 0,
             held |-> {}]

Created(latlngs) ==
  Install(OnCreated(State, latlngs), "created", LineId(lineCounter + 1),
          TRUE, "none")

Edited(edits) ==
  Install(OnEdited(State, edits), "edited", NoId,
          DOMAIN edits # {} /\ DOMAIN edits \subseteq DOMAIN lines, "none")

Deleted(ids) ==
  Install(OnDeleted(State, ids), "deleted", NoId,
          ids # {} /\ ids \subseteq DOMAIN lines, "none")

DeleteLine(lineId) ==
  Install(deleteLine(State, lineId), "deleteLine", lineId,
          lineId \in DOMAIN lines, "none")

ClearAll == Install(OnClear(State), "clear", NoId, TRUE, "none")

Undo ==
  IF Len(undoStack) = 0
  THEN Install(OnUndo(State), "undo", NoId, FALSE, "empty")
  ELSE LET action == undoStack[Len(undoStack)]
       IN Install(OnUndo(State), "undo", action.lineId,
                  action.lineId \in DOMAIN lines, action.type)

Batches(ids) == {b \in SUBSET ids : Cardinality(b) <= MaxBatch}
EditBatches(ids, lists) == UNION {[b -> lists] : b \in Batches(ids)}

Next ==
  \/ lineCounter < MaxLines /\ \E latlngs \in VertexLists : Created(latlngs)
  \/ \E edits \in EditBatches(Ids(MaxLines), VertexLists) : Edited(edits)
  \/ \E ids \in Batches(Ids(MaxLines)) : Deleted(ids)
  \/ \E lineId \in Ids(MaxLines) : DeleteLine(lineId)
  \/ ClearAll
  \/ Undo

Spec == Init /\ [][Next]_vars

\* A long session.  InitLong is the state the handlers above leave after the
\* user has, from Init, drawn and undone UndoneRounds lines and then drawn and
\* sidebar-deleted DeletedRounds more: the registry is empty again, the
\* counter stands at UndoneRounds + DeletedRounds and the undo stack holds a
\* create and a delete action for each of the latter.  From there the undo
\* stack fills up and the colour palette wraps within a few more lines.
UndoneRounds == 3
DeletedRounds == 5
LongLatLngs == <<0, 2>>

RECURSIVE DrawAndUndo(_, _)
DrawAndUndo(S, n) ==
  IF n = 0 THEN S
  ELSE DrawAndUndo(OnUndo(OnCreated(S, LongLatLngs)), n - 1)

RECURSIVE DrawAndDelete(_, _)
DrawAndDelete(S, n) ==
  IF n = 0 THEN S
  ELSE DrawAndDelete(deleteLine(OnCreated(S, LongLatLngs),
                                LineId(S.lineCounter + 1)), n - 1)

Constructed ==
  [lineCounter |-> 0, lines |-> EmptyMap, undoStack |-> <<>>,
   drawnItems |-> EmptyBag, labelsLayer |-> EmptyBag,
   listEl |-> [noLines |-> TRUE, items |-> {}],
   totals |-> [distance |-> "--", time |-> "--"]]

LongSession == DrawAndDelete(DrawAndUndo(Constructed, UndoneRounds),
                             DeletedRounds)

InitLong ==
  /\ Drawing
  /\ lineCounter = LongSession.lineCounter
  /\ lines = LongSession.lines
  /\ undoStack = LongSession.undoStack
  /\ drawnItems = LongSession.drawnItems
  /\ labelsLayer = LongSession.labelsLayer
  /\ listEl = LongSession.listEl
  /\ totals = LongSession.totals
  /\ last = [op |-> "deleteLine",
             lineId |-> LineId(UndoneRounds + DeletedRounds),
             hit |-> TRUE, kind |-> "none", after |-> "none",
             afterHit |-> FALSE,
             created |-> UndoneRounds + DeletedRounds,
             held |-> Ids(UndoneRounds + DeletedRounds)]

\* the ids the events of the long session name: the last line drawn and
\* undone, which no event can bring back, and every later one
LongIds ==
  {LineId(k) : k \in UndoneRounds..(LongSession.lineCounter + MaxLinesLong)}

NextLong ==
  \/ lineCounter < LongSession.lineCounter + MaxLinesLong
     /\ \E latlngs \in LongVertexLists : Created(latlngs)
  \/ \E edits \in EditBatches(LongIds, LongVertexLists) : Edited(edits)
  \/ \E ids \in Batches(LongIds) : Deleted(ids)
  \/ \E lineId \in LongIds : DeleteLine(lineId)
  \/ ClearAll
  \/ Undo

SpecLong == InitLong /\ [][NextLong]_vars

(***************************************************************************)
(* The older entry point, src/unnamed/part_000                             *)
(***************************************************************************)
\* deleteLine of the older entry point
P0_deleteLine(O, lineId) ==
  IF lineId \in DOMAIN O.lines
  THEN LET lineData == O.lines[lineId]
       IN updateResults(
            [O EXCEPT !.drawnItems = removeLayer(@, lineId),
                      !.labelsLayer = removeLayers(@, lineData.labels),
                      !.lines = MapDelete(@, lineId)])
  ELSE O

\* the CREATED handler of the older entry point colouring the line the way
\* the draw preview is coloured, from the counter before its increment
P0_OnCreatedPreviewColor(O, latlngs) ==
  LET counter == nextNumber(O)
      lineId == LineId(counter)
      color == lineColorNoOffset(counter)
      stored == [O EXCEPT !.lineCounter = counter,
                          !.drawnItems = addLayer(@, lineId),
                          !.lines = MapSet(@, lineId,
                                      [latlngs |-> latlngs, labels |-> <<>>,
                                       color |-> color, number |-> counter])]
  IN [updateResults(updateLineLabel(stored, lineId))
        EXCEPT !.currentDrawHandler = Null]

\* the two CREATED handlers of the older entry point, in the order they
\* were registered
P0_OnCreated(O, latlngs) ==
  LET counter == nextNumber(O)
      lineId == LineId(counter)
      color == lineColor(counter)
      stored == [O EXCEPT !.lineCounter = counter,
                          !.drawnItems = addLayer(@, lineId),
                          !.lines = MapSet(@, lineId,
                                      [latlngs |-> latlngs, labels |-> <<>>,
                                       color |-> color, number |-> counter])]
  IN [updateResults(updateLineLabel(stored, lineId))
        EXCEPT !.currentDrawHandler = Null]

P0_OnEdited(O, edits) == updateResults(EditEach(O, edits, DOMAIN edits))

P0_OnDeleted(O, ids) ==
  updateResults(
    DeleteEach([O EXCEPT !.drawnItems = ToolRemove(@, ids)], ids))

P0_OnClear(O) ==
  updateResults([O EXCEPT !.drawnItems = EmptyBag,
                          !.labelsLayer = EmptyBag,
                          !.lines = EmptyMap])

\* the contextmenu handler of the older entry point: whatever is being
\* drawn is disabled and a new draw handler takes its place
P0_OnContextMenu(O, latlng, gesture) ==
  [O EXCEPT !.currentDrawHandler =
              [id |-> gesture, markers |-> <<>>, seeds |-> <<>>],
            !.timers = Append(@, [latlng |-> latlng, gesture |-> gesture])]

(***************************************************************************)
(* Drawing by right-click                                                  *)
(***************************************************************************)
\* the page: the program state with the draw handler and the timers
Page ==
  [lineCounter |-> lineCounter, lines |-> lines, undoStack |-> undoStack,
   drawnItems |-> drawnItems, labelsLayer |-> labelsLayer,
   listEl |-> listEl, totals |-> totals,
   currentDrawHandler |-> currentDrawHandler, timers |-> timers]

\* where the right-clicks and where the clicks of a drawing session fall
DrawPoints == {0, 1}
ClickPoints == {2}

\* the contextmenu handler finishing only a path that already has two
\* vertices of its own
OnContextMenuFinishesFromTwo(P, latlng, gesture) ==
  IF P.currentDrawHandler # Null /\ Len(P.currentDrawHandler.markers) >= 2
  THEN [OnCreated(P, Append(P.currentDrawHandler.markers, latlng))
          EXCEPT !.currentDrawHandler = Null]
  ELSE [P EXCEPT !.currentDrawHandler =
                   [id |-> gesture, markers |-> <<>>, seeds |-> <<>>],
                 !.timers =
                   Append(@, [latlng |-> latlng, gesture |-> gesture])]

\* the contextmenu handler.  addVertex and completeShape make the draw tool
\* fire CREATED with the handler's vertices, and both CREATED handlers run
\* before the contextmenu handler returns.
OnContextMenu(P, latlng, gesture) ==
  IF P.currentDrawHandler # Null /\ Len(P.currentDrawHandler.markers) >= 1
  THEN [OnCreated(P, Append(P.currentDrawHandler.markers, latlng))
          EXCEPT !.currentDrawHandler = Null]
  ELSE [P EXCEPT !.currentDrawHandler =
                   [id |-> gesture, markers |-> <<>>, seeds |-> <<>>],
                 !.timers =
                   Append(@, [latlng |-> latlng, gesture |-> gesture])]

\* the callback given to setTimeout, the same in both entry points: it
\* reads currentDrawHandler when it runs; on null the call throws and
\* nothing but the timer is gone
OnTimeout(P) ==
  LET timer == Head(P.timers)
  IN IF P.currentDrawHandler = Null THEN [P EXCEPT !.timers = Tail(@)]
     ELSE [P EXCEPT !.timers = Tail(@),
                    !.currentDrawHandler.markers = Append(@, timer.latlng),
                    !.currentDrawHandler.seeds = Append(@, timer.gesture)]

\* a click on the map while a draw handler is enabled: the draw tool puts a
\* vertex there
OnClick(P, latlng) ==
  IF P.currentDrawHandler = Null THEN P
  ELSE [P EXCEPT !.currentDrawHandler.markers = Append(@, latlng)]

\* an event that both entry points handle
InstallBoth(P, O, op, lineId, hit, kind) ==
  /\ Handled(P, op, lineId, hit, kind)
  /\ currentDrawHandler' = P.currentDrawHandler
  /\ timers' = P.timers
  /\ gestures' = gestures + (IF kind \in {"start", "finish"} THEN 1 ELSE 0)
  /\ old' = O

ContextMenu(latlng) ==
  LET P == OnContextMenu(Page, latlng, gestures + 1)
      finished == P.lineCounter # lineCounter
  IN InstallBoth(P, P0_OnContextMenu(old, latlng, gestures + 1),
                 IF finished THEN "created" ELSE "contextmenu",
                 IF finished THEN LineId(P.lineCounter) ELSE NoId,
                 currentDrawHandler # Null,
                 IF finished THEN "finish" ELSE "start")

\* the timer of the earliest right-click that still has one runs, in each
\* entry point that holds it
Due(P) == IF P.timers = <<>> THEN MaxGestures + 1 ELSE Head(P.timers).gesture

Timeout ==
  LET due == IF Due(Page) < Due(old) THEN Due(Page) ELSE Due(old)
      P == IF Due(Page) = due THEN OnTimeout(Page) ELSE Page
      O == IF Due(old) = due THEN OnTimeout(old) ELSE old
  IN /\ due <= MaxGestures
     /\ InstallBoth(P, O, "timeout", NoId,
                    Due(Page) = due /\ currentDrawHandler # Null,
                    IF Due(Page) # due THEN "none"
                    ELSE IF currentDrawHandler = Null THEN "TypeError"
                    ELSE "seeded")

Click(latlng) ==
  /\ currentDrawHandler # Null \/ old.currentDrawHandler # Null
  /\ Len(currentDrawHandler.markers) < MaxMarkers
  /\ Len(old.currentDrawHandler.markers) < MaxMarkers
  /\ InstallBoth(OnClick(Page, latlng), OnClick(old, latlng), "click", NoId,
                 currentDrawHandler # Null, "none")

NextDraw ==
  \/ gestures < MaxGestures /\ \E latlng \in DrawPoints : ContextMenu(latlng)
  \/ Timeout
  \/ \E latlng \in ClickPoints : Click(latlng)

SpecDraw == Init /\ [][NextDraw]_vars

(***************************************************************************)
(* Both entry points fed the same events                                   *)
(***************************************************************************)
BothCreated(latlngs) ==
  InstallBoth([OnCreated(Page, latlngs) EXCEPT !.currentDrawHandler = Null],
              P0_OnCreated(old, latlngs),
              "created", LineId(lineCounter + 1), TRUE, "none")

BothEdited(edits) ==
  InstallBoth(OnEdited(Page, edits), P0_OnEdited(old, edits), "edited", NoId,
              DOMAIN edits # {} /\ DOMAIN edits \subseteq DOMAIN lines,
              "none")

BothDeleted(ids) ==
  InstallBoth(OnDeleted(Page, ids), P0_OnDeleted(old, ids), "deleted", NoId,
              ids # {} /\ ids \subseteq DOMAIN lines, "none")

BothDeleteLine(lineId) ==
  InstallBoth(deleteLine(Page, lineId), P0_deleteLine(old, lineId),
              "deleteLine", lineId, lineId \in DOMAIN lines, "none")

BothClearAll ==
  InstallBoth(OnClear(Page), P0_OnClear(old), "clear", NoId, TRUE, "none")

NextBoth ==
  \/ lineCounter < MaxLines
     /\ \E latlngs \in VertexLists : BothCreated(latlngs)
  \/ \E edits \in EditBatches(Ids(MaxLines), VertexLists) : BothEdited(edits)
  \/ \E ids \in Batches(Ids(MaxLines)) : BothDeleted(ids)
  \/ \E lineId \in Ids(MaxLines) : BothDeleteLine(lineId)
  \/ BothClearAll

SpecBoth == Init /\ [][NextBoth]_vars

\* The pure functions on their own: the program stays as constructed and
\* `last` holds the call made last, its argument and what it returned.  The
\* fields of each record below are written in the order in which their
\* names first occur in this module, which is the order TLC keeps them in.
Seconds == 0..MaxSeconds
VertexSeqs == UNION {[1..n -> 0..MaxPoint] : n \in 0..MaxVertices}

Returned(call) ==
  /\ last' = call
  /\ UNCHANGED <<lineCounter, lines, undoStack, drawnItems, labelsLayer,
                 listEl, totals, currentDrawHandler, timers, gestures, old>>

InitFunctions ==
  /\ Drawing
  /\ lineCounter = Constructed.lineCounter
  /\ lines = Constructed.lines
  /\ undoStack = Constructed.undoStack
  /\ drawnItems = Constructed.drawnItems
  /\ labelsLayer = Constructed.labelsLayer
  /\ listEl = Constructed.listEl
  /\ totals = Constructed.totals
  /\ last = [op |-> "init"]

\* formatTime and formatTimeLong of the same whole number of seconds
FormatTimes(seconds) ==
  Returned([seconds |-> seconds, op |-> "formatTime",
            short |-> formatTime([num |-> seconds, den |-> 1]),
            long |-> formatTimeLong([num |-> seconds, den |-> 1])])

\* calculateDistance of a vertex list, and the totalFeet that the loop of
\* updateLineLabel accumulates over the same list
CalculateDistance(latlngs) ==
  Returned([latlngs |-> latlngs,
            totalFeet |-> SegmentFeet(latlngs, 1),
            feet |-> calculateDistance(latlngs), op |-> "calculateDistance"])

GetMidpoint(latlngs) ==
  Returned([latlngs |-> latlngs, op |-> "getMidpoint",
            result |-> getMidpoint(latlngs)])

NextFunctions ==
  \/ \E seconds \in Seconds : FormatTimes(seconds)
  \/ \E latlngs \in VertexSeqs : CalculateDistance(latlngs)
  \/ \E latlngs \in VertexSeqs : GetMidpoint(latlngs)

SpecFunctions == InitFunctions /\ [][NextFunctions]_vars

(***************************************************************************)
(* Properties                                                              *)
(***************************************************************************)
Texts(labels) == [i \in 1..Len(labels) |-> labels[i].html]

Top(stack) == stack[Len(stack)]

\* C1: for every path P in the registry, a sidebar delete of P immediately
\* followed by undo leaves the registry holding, under P's id, a path with
\* P's vertices, colour and sequence number, with as many labels as P had
\* and the same label texts.
C1_DeleteUndoRestores ==
  \A lineId \in DOMAIN lines :
    LET P == lines[lineId]
        after == OnUndo(deleteLine(State, lineId))
    IN /\ lineId \in DOMAIN after.lines
       /\ after.lines[lineId].latlngs = P.latlngs
       /\ after.lines[lineId].color = P.color
       /\ after.lines[lineId].number = P.number
       /\ Len(after.lines[lineId].labels) = Len(P.labels)
       /\ Texts(after.lines[lineId].labels) = Texts(P.labels)

\* a labelled path is back in the registry by an undo that directly followed
\* its sidebar delete
C1_Witness ==
  /\ last.op = "undo" /\ last.kind = "delete"
  /\ last.after = "deleteLine" /\ last.afterHit
  /\ last.lineId \in DOMAIN lines
  /\ Len(lines[last.lineId].labels) >= 2

\* C2 as stated: after a clear-all immediately followed by undo the registry
\* is empty, whatever the undo stack held.
C2_ClearUndoEmpty ==
  (last.op = "undo" /\ last.after = "clear") => lines = EmptyMap

\* C2 as amended: a clear-all followed by undo brings back no path that the
\* clear-all removed; the registry after the undo is empty unless the top of
\* the undo stack is a delete action, and then it holds exactly the one path
\* of that action, which was not in the registry when it was cleared.
C2_ClearUndoOnlyRestoresDeleted ==
  LET after == OnUndo(OnClear(State))
  IN /\ DOMAIN after.lines \cap DOMAIN lines = {}
     /\ IF Len(undoStack) > 0 /\ Top(undoStack).type = "delete"
        THEN /\ DOMAIN after.lines = {Top(undoStack).lineId}
             /\ after.lines[Top(undoStack).lineId].latlngs
                  = Top(undoStack).latlngs
        ELSE after.lines = EmptyMap

\* an undo directly after a clear-all has restored the sidebar-deleted path
\* and nothing else
C2_Witness ==
  /\ last.op = "undo" /\ last.after = "clear" /\ last.kind = "delete"
  /\ DOMAIN lines = {last.lineId}

\* C3: from any reachable state, a path-finished event immediately followed
\* by undo removes the path just created and leaves the registry with
\* exactly the paths it had before.
C3_CreateUndoRemoves ==
  \A latlngs \in VertexLists :
    LET made == OnCreated(State, latlngs)
        after == OnUndo(made)
    IN /\ LineId(made.lineCounter) \in DOMAIN made.lines
       /\ LineId(made.lineCounter) \notin DOMAIN after.lines
       /\ after.lines = lines

\* an undo directly after a create has removed the new path and kept an
\* older one
C3_Witness ==
  /\ last.op = "undo" /\ last.after = "created" /\ last.kind = "create"
  /\ last.lineId = LineId(lineCounter)
  /\ last.lineId \notin DOMAIN lines
  /\ lines # EmptyMap

\* C4: the undo stack never holds more than MAX_UNDO actions; a push
\* appends the new action, and onto a full stack it drops exactly the oldest
\* action and keeps the others in order before the new one.
C4_PushStep ==
  \/ last'.op = "created"
  \/ last'.op = "deleteLine" /\ last'.lineId \in DOMAIN lines

C4_Pushed ==
  IF last'.op = "created"
  THEN [type |-> "create", lineId |-> LineId(last'.created)]
  ELSE [type |-> "delete", lineId |-> last'.lineId,
        latlngs |-> lines[last'.lineId].latlngs,
        color |-> lines[last'.lineId].color,
        number |-> lines[last'.lineId].number]

C4_UndoStackBounded ==
  /\ [](Len(undoStack) <= MAX_UNDO)
  /\ [][C4_PushStep =>
          IF Len(undoStack) = MAX_UNDO
          THEN undoStack' = Tail(undoStack) \o <<C4_Pushed>>
          ELSE undoStack' = Append(undoStack, C4_Pushed)]_vars

\* the create that follows the long session has pushed onto the full stack:
\* the session's oldest action is gone, the rest is in place under the new one
C4_Witness ==
  /\ last.op = "created"
  /\ Len(LongSession.undoStack) = MAX_UNDO
  /\ undoStack = Tail(LongSession.undoStack)
                   \o <<[type |-> "create", lineId |-> LineId(lineCounter)]>>

PathSeconds(latlngs) ==
  ROver(calculateDistance(latlngs), WALKING_SPEED_FT_PER_SEC)

\* C5 as stated: the total label of every path with at least 2 vertices is
\* "Total: " followed by the walking time of the path's full length in the
\* long format.
C5_TotalLabelLong ==
  \A lineId \in DOMAIN lines :
    Len(lines[lineId].latlngs) >= 2 =>
      Top(lines[lineId].labels).html
        = "Total: " \o formatTimeLong(PathSeconds(lines[lineId].latlngs))

\* C5 as amended: the total label of every path with at least 2 vertices is
\* "Total: " followed by the walking time of the path's full length in the
\* short format, the one the segment labels use.
C5_TotalLabelShort ==
  \A lineId \in DOMAIN lines :
    Len(lines[lineId].latlngs) >= 2 =>
      /\ lines[lineId].labels # <<>>
      /\ Top(lines[lineId].labels).html
           = "Total: " \o formatTime(PathSeconds(lines[lineId].latlngs))

\* a path of two short segments whose total is a minute
C5_Witness ==
  \E lineId \in DOMAIN lines :
    /\ Len(lines[lineId].latlngs) = 3
    /\ Texts(lines[lineId].labels) = <<"<1m", "<1m", "Total: 1m">>

\* C6: every path in the registry with sequence number i has the colour
\* LINE_COLORS[(i - 1) mod 8], whatever happened before and however many
\* paths the registry holds.
C6_ColorByNumber ==
  \A lineId \in DOMAIN lines :
    lines[lineId].color
      = LINE_COLORS[((lines[lineId].number - 1) % 8) + 1]

\* the ninth line has the first colour of the palette again, beside the
\* restored eighth line with the last colour
C6_Witness ==
  /\ LineId(9) \in DOMAIN lines
  /\ lines[LineId(9)].color = LINE_COLORS[1]
  /\ \E lineId \in DOMAIN lines : lines[lineId].color = LINE_COLORS[8]

\* C7: the k-th path-finished event gives the new path the sequence number
\* k and the id line-k; every other event leaves the counter unchanged, and
\* the counter never decreases.
C7_KthCreateGetsK ==
  [][/\ lineCounter' >= lineCounter
     /\ IF last'.created = last.created + 1
        THEN LET k == last'.created
             IN /\ lineCounter' = k
                /\ DOMAIN lines' = DOMAIN lines \cup {LineId(k)}
                /\ LineId(k) \notin DOMAIN lines
                /\ lines'[LineId(k)].number = k
        ELSE lineCounter' = lineCounter]_vars

\* the second path-finished event came after the first line had been
\* deleted and got number 2
C7_Witness ==
  /\ last.op = "created" /\ last.created = 2
  /\ DOMAIN lines = {LineId(2)}
  /\ lines[LineId(2)].number = 2
  /\ Len(undoStack) = 3

\* C8: the paths in the registry have pairwise distinct ids and sequence
\* numbers, none above the counter; a path-finished event produces an id
\* that no path has held before, and an id that has left the registry
\* comes back only by the undo of its delete action.
C8_Distinct ==
  /\ \A a \in DOMAIN lines :
       /\ lines[a].number <= lineCounter
       /\ a = LineId(lines[a].number)
  /\ \A a, b \in DOMAIN lines :
       a # b => lines[a].number # lines[b].number

C8_NoReuse ==
  /\ []C8_Distinct
  /\ [][\A lineId \in DOMAIN lines' \ DOMAIN lines :
          IF last'.created = last.created + 1
          THEN /\ lineId \notin last.held
               /\ \A a \in last.held : a # LineId(lines'[lineId].number)
          ELSE /\ lineId \in last.held
               /\ last'.op = "undo"
               /\ undoStack # <<>>
               /\ Top(undoStack).type = "delete"
               /\ Top(undoStack).lineId = lineId]_vars

\* the first line, deleted in the sidebar, has come back under its own id by
\* undo, beside the second line drawn in between
C8_Witness ==
  /\ last.op = "undo" /\ last.kind = "delete" /\ last.lineId = LineId(1)
  /\ DOMAIN lines = {LineId(1), LineId(2)}
  /\ lines[LineId(1)].number = 1 /\ lines[LineId(2)].number = 2
  /\ lineCounter = 2

\* the registries that 0 .. n successive undos lead to
RECURSIVE UndoRegistries(_, _)
UndoRegistries(S, n) ==
  IF n = 0 THEN {DOMAIN S.lines}
  ELSE {DOMAIN S.lines} \cup UndoRegistries(OnUndo(S), n - 1)

\* C9: a removal notified by the draw tool removes the listed paths from the
\* registry and leaves the undo stack unchanged, and no run of undos after
\* it brings a removed path back; a delete action is pushed only by a
\* sidebar delete of a path in the registry.
C9_ToolRemoval ==
  \A ids \in Batches(Ids(MaxLines)) :
    LET after == OnDeleted(State, ids)
    IN /\ DOMAIN after.lines = DOMAIN lines \ ids
       /\ after.undoStack = undoStack
       /\ \/ ids \cap DOMAIN lines = {}
          \/ \A registry \in UndoRegistries(after, Len(undoStack)) :
               registry \cap (ids \cap DOMAIN lines) = {}

C9_ToolRemovalNotUndone ==
  /\ []C9_ToolRemoval
  /\ [][/\ last'.op = "deleted" => undoStack' = undoStack
        /\ (/\ undoStack' # undoStack
            /\ undoStack' # <<>>
            /\ Len(undoStack') >= Len(undoStack)
            /\ Top(undoStack').type = "delete")
           => /\ last'.op = "deleteLine"
              /\ last'.lineId \in DOMAIN lines
              /\ Top(undoStack').lineId = last'.lineId]_vars

\* the only line ever drawn was removed by the tool; the undo after it
\* popped the line's create action and the registry stayed empty
C9_Witness ==
  /\ last.op = "undo" /\ last.kind = "create"
  /\ last.after = "deleted" /\ last.afterHit
  /\ last.held = {LineId(1)} /\ last.lineId = LineId(1)
  /\ lines = EmptyMap /\ undoStack = <<>>

\* C10: every path in the registry with n vertices has no label when n < 2
\* and n labels when n >= 2: a segment label at the midpoint of each
\* consecutive vertex pair, in order, then the total label at the last
\* vertex.
C10_LabelLayout ==
  \A lineId \in DOMAIN lines :
    LET latlngs == lines[lineId].latlngs
        labels == lines[lineId].labels
        n == Len(latlngs)
    IN IF n < 2 THEN labels = <<>>
       ELSE /\ Len(labels) = n
            /\ \A i \in 1..(n - 1) :
                 /\ labels[i].className = "line-label"
                 /\ labels[i].latlng
                      = [num |-> latlngs[i] + latlngs[i + 1], den |-> 2]
            /\ labels[n].className = "line-label total-label"
            /\ labels[n].latlng = [num |-> latlngs[n], den |-> 1]

\* an edit has left one path with a single vertex and no label beside a
\* path with three vertices and three labels
C10_Witness ==
  /\ last.op = "edited"
  /\ \E a, b \in DOMAIN lines :
       /\ Len(lines[a].latlngs) = 1 /\ lines[a].labels = <<>>
       /\ Len(lines[b].latlngs) = 3 /\ Len(lines[b].labels) = 3

\* the registry, the labels on the map, the counter and the undo stack of S
\* are those of the current state
SameModel(S) ==
  /\ S.lines = lines
  /\ S.labelsLayer = labelsLayer
  /\ S.lineCounter = lineCounter
  /\ S.undoStack = undoStack

\* C11: an edit notification, a tool removal or a sidebar delete naming an
\* id that is not in the registry leaves the registry with every path's
\* labels, the labels on the map, the counter and the undo stack as they
\* were; the sidebar delete pushes no delete action.
C11_UnknownIdIgnored ==
  \A lineId \in LongIds \ DOMAIN lines :
    /\ SameModel(deleteLine(State, lineId))
    /\ SameModel(OnDeleted(State, {lineId}))
    /\ \A latlngs \in VertexLists :
         SameModel(OnEdited(State, [id \in {lineId} |-> latlngs]))

\* a sidebar delete has named an id that was not in the registry while
\* another path was, with actions on the undo stack
C11_Witness ==
  /\ last.op = "deleteLine" /\ ~last.hit
  /\ lines # EmptyMap /\ labelsLayer # EmptyBag
  /\ Len(undoStack) = MAX_UNDO

\* C12: undo on an empty undo stack leaves the whole state as it is: the
\* registry, the labels, the counter, the empty stack and the view.
C12_EmptyUndoNoOp ==
  undoStack = <<>> => OnUndo(State) = State

\* undo has found the stack empty while a labelled path was in the registry
C12_Witness ==
  /\ last.op = "undo" /\ last.kind = "empty"
  /\ undoStack = <<>>
  /\ lines # EmptyMap /\ labelsLayer # EmptyBag

\* C13: from every reachable state clear-all leaves the registry and both
\* layer groups empty, and the undo stack and the counter as they were.
C13_ClearAll ==
  LET after == OnClear(State)
  IN /\ after.lines = EmptyMap
     /\ after.labelsLayer = EmptyBag
     /\ after.drawnItems = EmptyBag
     /\ after.undoStack = undoStack
     /\ after.lineCounter = lineCounter

\* clear-all has emptied the map while the full undo stack, with the create
\* action of the ninth line on top, is still in place
C13_Witness ==
  /\ last.op = "clear"
  /\ lines = EmptyMap /\ labelsLayer = EmptyBag /\ drawnItems = EmptyBag
  /\ Len(undoStack) = MAX_UNDO
  /\ Top(undoStack) = [type |-> "create", lineId |-> LineId(lineCounter)]

\* C14: in every state a handler leaves, the sidebar list and the summary
\* are those computed from the registry of that state: one row for each
\* path in the registry, no other row, and the totals of exactly those
\* paths.
C14_ViewMatchesRegistry ==
  /\ listEl = updateLinesList(State).listEl
  /\ totals = updateTotals(State).totals
  /\ {item.lineId : item \in listEl.items} = DOMAIN lines
  /\ Cardinality(listEl.items) = Cardinality(DOMAIN lines)
  /\ listEl.noLines <=> lines = EmptyMap

\* a tool removal has left one measurable path of two, and the view shows
\* that one path
C14_Witness ==
  /\ last.op = "deleted" /\ last.hit
  /\ Cardinality(DOMAIN lines) = 1
  /\ Cardinality(last.held) = 2
  /\ Cardinality(listEl.items) = 1
  /\ totals.distance # "--"

\* the metres of all paths in the registry
RECURSIVE C15_TotalMeters(_)
C15_TotalMeters(ids) ==
  IF ids = {} THEN 0
  ELSE LET id == CHOOSE x \in ids : TRUE
       IN SumMeters(lines[id].latlngs, 1) + C15_TotalMeters(ids \ {id})

\* C15: the summary shows "--" for distance and time exactly when the total
\* length of the paths in the registry is 0, so whenever the registry is
\* empty; otherwise the time is the long format of total feet / 3 seconds
\* and the distance is the rounded feet followed by the miles.
C15_Placeholder ==
  LET meters == C15_TotalMeters(DOMAIN lines)
      feet == RTimes(meters, METERS_TO_FEET)
  IN /\ lines = EmptyMap => meters = 0
     /\ IF meters = 0
        THEN totals = [distance |-> "--", time |-> "--"]
        ELSE /\ totals.time = formatTimeLong(ROver(feet, 3))
             /\ totals.time # "--"
             /\ totals.distance
                  = ToLocaleString(MathRound(feet)) \o " ft ("
                      \o ToFixed2(ROver(feet, 5280)) \o " mi)"
             /\ totals.distance # "--"

\* an edit has left a path without length in the registry, and the summary
\* shows the placeholder
C15_Witness ==
  /\ last.op = "edited" /\ last.hit
  /\ lines # EmptyMap
  /\ totals = [distance |-> "--", time |-> "--"]

\* C16: for every whole number of seconds s >= 0 both formatters round
\* s / 60 half up to the same minute count N: "<1m" and "<1 min" below 30
\* seconds, "1m" and "1 min" from 30 up to but not including 90, and "Nm"
\* and "N min" with N >= 2 from 90 on.
C16_MinuteRounding ==
  last.op = "formatTime" =>
    LET s == last.seconds
        N == (s + 30) \div 60
    IN /\ s < 30 => last.short = "<1m" /\ last.long = "<1 min"
       /\ (s >= 30 /\ s < 90) => last.short = "1m" /\ last.long = "1 min"
       /\ s >= 90 => /\ N >= 2
                     /\ last.short = ToString(N) \o "m"
                     /\ last.long = ToString(N) \o " min"

\* exactly 90 seconds have been formatted and rounded up to 2 minutes
C16_Witness ==
  /\ last.op = "formatTime" /\ last.seconds = 90
  /\ last.short = "2m" /\ last.long = "2 min"

\* the feet of the first n - 1 consecutive vertex pairs, pair by pair
RECURSIVE C17_PairFeet(_, _)
C17_PairFeet(latlngs, n) ==
  IF n <= 1 THEN [num |-> 0, den |-> METERS_TO_FEET.den]
  ELSE [num |-> C17_PairFeet(latlngs, n - 1).num
                  + Abs(latlngs[n] - latlngs[n - 1]) * GridMeters
                      * METERS_TO_FEET.num,
        den |-> METERS_TO_FEET.den]

\* C17: the path length of every vertex sequence is the sum of the
\* distances of its consecutive vertex pairs converted to feet, 0 for less
\* than 2 vertices, and the total that the label update accumulates for the
\* total label is that same length.
C17_PathLength ==
  last.op = "calculateDistance" =>
    LET latlngs == last.latlngs
    IN /\ last.feet = C17_PairFeet(latlngs, Len(latlngs))
       /\ Len(latlngs) <= 1 => last.feet.num = 0
       /\ last.totalFeet = last.feet

\* a path that doubles back has been measured: its length is that of both
\* segments, not the distance between its ends
C17_Witness ==
  /\ last.op = "calculateDistance" /\ last.latlngs = <<0, 2, 1>>
  /\ last.feet = [num |-> 3 * GridMeters * METERS_TO_FEET.num,
                  den |-> METERS_TO_FEET.den]
  /\ last.totalFeet = last.feet

\* the metres of the first i segments of a vertex list
C18_Cumulated(latlngs, i) == SumMeters(SubSeq(latlngs, 1, i + 1), 1)

\* C18: getMidpoint returns null for no vertex and the vertex itself for
\* one; for 2 or more vertices, a total length of 0 included, it returns a
\* point interpolated with a defined ratio between 0 and 1 in the first
\* segment at whose end the cumulated length has reached half the total,
\* and never the fallback vertex.
C18_MidpointWellDefined ==
  last.op = "getMidpoint" =>
    LET latlngs == last.latlngs
        result == last.result
        total == SumMeters(latlngs, 1)
    IN /\ Len(latlngs) = 0 => result.kind = "null"
       /\ Len(latlngs) = 1 =>
            result.kind = "vertex" /\ result.latlng = latlngs[1]
       /\ Len(latlngs) >= 2 =>
            /\ result.kind = "interpolated"
            /\ 2 * C18_Cumulated(latlngs, result.segment) >= total
            /\ \A i \in 1..(result.segment - 1) :
                 2 * C18_Cumulated(latlngs, i) < total
            /\ result.ratio.den > 0
            /\ result.ratio.num >= 0
            /\ result.ratio.num <= result.ratio.den

\* the state that n successive undos lead to
RECURSIVE UndoTimes(_, _)
UndoTimes(S, n) == IF n = 0 THEN S ELSE UndoTimes(OnUndo(S), n - 1)

\* C19: an undo step on a non-empty undo stack removes exactly the top
\* action, whatever its type and whether or not its line is in the
\* registry, and adds nothing; undo repeated with no other event shortens
\* the stack by one each time until it is empty, and then changes nothing.
C19_Drains ==
  /\ \A k \in 0..Len(undoStack) :
       UndoTimes(State, k).undoStack
         = SubSeq(undoStack, 1, Len(undoStack) - k)
  /\ LET drained == UndoTimes(State, Len(undoStack))
     IN /\ drained.undoStack = <<>>
        /\ OnUndo(drained) = drained

C19_UndoNeverRecords ==
  /\ []C19_Drains
  /\ [][last'.op = "undo" =>
          IF undoStack = <<>> THEN undoStack' = <<>>
          ELSE undoStack' = SubSeq(undoStack, 1, Len(undoStack) - 1)]_vars

\* undo has popped the create action of a path that was no longer in the
\* registry
C19_Witness ==
  /\ last.op = "undo" /\ last.kind = "create" /\ ~last.hit
  /\ last.lineId \notin DOMAIN lines
  /\ Len(undoStack) = MAX_UNDO - 1

\* C20: the action recorded last is on top of the undo stack, and
\* successive undos reverse the actions on the stack from the top down: the
\* k-th undo removes the path of the k-th action from the top when that is
\* a create action and restores its path when it is a delete action, and
\* leaves the older actions in place.
C20_TopDown ==
  \A k \in 1..Len(undoStack) :
    LET before == UndoTimes(State, k - 1)
        after == UndoTimes(State, k)
        action == undoStack[Len(undoStack) - k + 1]
    IN /\ after.undoStack = SubSeq(undoStack, 1, Len(undoStack) - k)
       /\ IF action.type = "create"
          THEN DOMAIN after.lines = DOMAIN before.lines \ {action.lineId}
          ELSE /\ DOMAIN after.lines
                    = DOMAIN before.lines \cup {action.lineId}
               /\ after.lines[action.lineId].latlngs = action.latlngs
               /\ after.lines[action.lineId].number = action.number

C20_UndoIsLifo ==
  /\ []C20_TopDown
  /\ [][C4_PushStep => Top(undoStack') = C4_Pushed]_vars

\* two undos in a row: the second has restored the path whose delete action
\* lay under the action the first one popped
C20_Witness ==
  /\ last.op = "undo" /\ last.after = "undo" /\ last.kind = "delete"
  /\ last.lineId \in DOMAIN lines
  /\ Len(undoStack) = MAX_UNDO - 2

\* the positions of the delete actions for a line id on the undo stack
C21_DeleteEntries(lineId) ==
  {i \in 1..Len(undoStack) :
     undoStack[i].type = "delete" /\ undoStack[i].lineId = lineId}

\* C21: the undo stack holds at most one delete action for any line id and
\* none for an id that is in the registry; so when undo restores a line,
\* its id is not in the registry and has no layer on the map, and the
\* restore adds one layer and one entry and leaves the other entries alone.
C21_NoDeleteOfLive ==
  /\ \A lineId \in DOMAIN lines : C21_DeleteEntries(lineId) = {}
  /\ \A i \in 1..Len(undoStack) :
       Cardinality(C21_DeleteEntries(undoStack[i].lineId)) <= 1
  /\ (undoStack # <<>> /\ Top(undoStack).type = "delete") =>
       LET lineId == Top(undoStack).lineId
           after == OnUndo(State)
       IN /\ lineId \notin DOMAIN lines
          /\ CopiesIn(lineId, drawnItems) = 0
          /\ CopiesIn(lineId, after.drawnItems) = 1
          /\ DOMAIN after.lines = DOMAIN lines \cup {lineId}
          /\ \A other \in DOMAIN lines : after.lines[other] = lines[other]

\* undo has restored a sidebar-deleted path beside another path, with the
\* delete actions of other paths still on the stack
C21_Witness ==
  /\ last.op = "undo" /\ last.kind = "delete"
  /\ last.lineId \in DOMAIN lines
  /\ Cardinality(DOMAIN lines) >= 2
  /\ \E i \in 1..Len(undoStack) : undoStack[i].type = "delete"

\* the labels in the label lists of the registry's paths
RECURSIVE C22_TrackedLabels(_)
C22_TrackedLabels(ids) ==
  IF ids = {} THEN EmptyBag
  ELSE LET id == CHOOSE x \in ids : TRUE
       IN SeqToBag(lines[id].labels) (+) C22_TrackedLabels(ids \ {id})

\* C22: the labels on the label layer are exactly the labels in the label
\* lists of the paths in the registry, each once.
C22_LabelsTracked ==
  labelsLayer = C22_TrackedLabels(DOMAIN lines)

\* an edit has relabelled one of two paths: the layer holds the two labels
\* of the one and the three labels of the other
C22_Witness ==
  /\ last.op = "edited" /\ last.hit
  /\ Cardinality(DOMAIN lines) = 2
  /\ BagCardinality(labelsLayer) = 5

\* C23: an undo whose top action is the create action of a path that is
\* not in the registry takes that one action off the stack and leaves the
\* registry, the labels, the layers, the counter and the view as they were.
C23_StaleCreateConsumed ==
  (/\ undoStack # <<>>
   /\ Top(undoStack).type = "create"
   /\ Top(undoStack).lineId \notin DOMAIN lines) =>
    OnUndo(State)
      = [State EXCEPT !.undoStack = SubSeq(@, 1, Len(undoStack) - 1)]

\* the ninth path was cleared away and the undo after it popped its create
\* action: the registry is still empty and the delete action of the eighth
\* path is now on top
C23_Witness ==
  /\ last.op = "undo" /\ last.kind = "create" /\ ~last.hit
  /\ last.after = "clear"
  /\ lines = EmptyMap
  /\ undoStack # <<>> /\ Top(undoStack).type = "delete"

\* the draw handler that the right-click of the step has made
C24_Started == [id |-> gestures', markers |-> <<>>, seeds |-> <<>>]

\* C24 as stated: a right-click while a path is in progress leaves the
\* registry as it is and puts a new draw handler without vertices in the
\* place of the one in progress, in both entry points.
C24_GestureDiscards ==
  [][gestures' = gestures + 1 =>
       /\ currentDrawHandler # Null =>
            lines' = lines /\ currentDrawHandler' = C24_Started
       /\ old.currentDrawHandler # Null =>
            /\ old'.lines = old.lines
            /\ old'.currentDrawHandler = C24_Started]_vars

\* C24 as amended: in src/main.js a right-click while a path is in progress
\* discards it and starts a new one only when it has no vertex yet; when it
\* has one or more, the right-click finishes it: the path enters the
\* registry with its vertices followed by the place of the right-click, no
\* handler is current afterwards and no deferred step is set.  In the older
\* entry point the right-click always discards and starts anew.
C24_FinishOrDiscard ==
  [][gestures' = gestures + 1 =>
       /\ IF Len(currentDrawHandler.markers) = 0
          THEN /\ lines' = lines
               /\ currentDrawHandler' = C24_Started
               /\ Len(timers') = Len(timers) + 1
          ELSE LET lineId == LineId(lineCounter + 1)
                   markers == currentDrawHandler.markers
               IN /\ lineId \notin DOMAIN lines
                  /\ DOMAIN lines' = DOMAIN lines \cup {lineId}
                  /\ Len(lines'[lineId].latlngs) = Len(markers) + 1
                  /\ SubSeq(lines'[lineId].latlngs, 1, Len(markers))
                       = markers
                  /\ lines'[lineId].latlngs[Len(markers) + 1] \in DrawPoints
                  /\ currentDrawHandler' = Null
                  /\ timers' = timers
       /\ old'.lines = old.lines
       /\ old'.currentDrawHandler = C24_Started]_vars

\* a right-click has finished a path in progress that had two vertices,
\* where the older entry point has discarded it and started a new one
C24_Witness ==
  /\ last.op = "created" /\ last.kind = "finish" /\ last.hit
  /\ currentDrawHandler = Null
  /\ Len(lines[last.lineId].latlngs) = 3
  /\ old.lines = EmptyMap
  /\ old.currentDrawHandler.id = gestures
  /\ old.currentDrawHandler.markers = <<>>

\* C25: every vertex a deferred step has given to a draw handler comes from
\* the right-click that made that handler, and no deferred step runs while
\* there is no current handler, in either entry point.
C25_SeedOwnHandler ==
  /\ \A i \in 1..Len(currentDrawHandler.seeds) :
       currentDrawHandler.seeds[i] = currentDrawHandler.id
  /\ \A i \in 1..Len(old.currentDrawHandler.seeds) :
       old.currentDrawHandler.seeds[i] = old.currentDrawHandler.id
  /\ ~(last.op = "timeout" /\ last.kind = "TypeError")

\* C26: after every path-finished, path-edited, tool-removal, sidebar-delete
\* and clear-all event handled by both entry points, the two have the same
\* registry (ids, numbers, colours, vertices and labels of every path) and
\* the same counter.
C26_EntryPointsAgree ==
  /\ old.lines = lines
  /\ old.lineCounter = lineCounter

\* a sidebar delete has removed one of two paths in both entry points; only
\* src/main.js has recorded it
C26_Witness ==
  /\ last.op = "deleteLine" /\ last.hit
  /\ Len(undoStack) = 3 /\ Top(undoStack).type = "delete"
  /\ Cardinality(DOMAIN lines) = 1
  /\ \E lineId \in DOMAIN old.lines : Len(old.lines[lineId].labels) = 3

====
